---------------------------- MODULE Spec2Model ----------------------------
(***************************************************************************)
(* A model of src/couchdb.js: the CouchDBClient class, a thin client over  *)
(* the nano CouchDB driver.                                                *)
(*                                                                         *)
(* JavaScript strings that the code concatenates or converts (host, port,  *)
(* user, password, instanceUrl, the database name handed to                *)
(* encodeURIComponent) are sequences of UTF-16 code units. Names that the  *)
(* code only compares or uses as keys are TLA+ strings.                    *)
(*                                                                         *)
(* Every remote call is two steps: the client issues the request, then the *)
(* server answers. The server is the environment of the program.           *)
(***************************************************************************)
EXTENDS Integers, Sequences, FiniteSets, TLC

VARIABLES
    \* ---- startReplication
    rpc,        \* position of the startReplication call: "call", "enable", "done"
    rargs,      \* its arguments: [this, sourceInstance, db, continuous]
    rcalls,     \* the nano.db.replication.enable requests it has issued
    rresult,    \* how the returned promise settled
    \* ---- getDatabases
    dpc,        \* "call", "list", "done"
    dargs,      \* [exclude_list, exclude_system], each <<>> (undefined) or <<v>>
    dserver,    \* the server's enumeration of its databases
    dexclude,   \* the local exclude_dbs
    dresult,    \* how the returned promise settled
    \* ---- createDocument
    dbConn,     \* this.dbConn: [own: name -> handle, proto: handle or ObjectPrototype]
    useCalls,   \* every nano.use(name) made by createDocument, in order
    inserts,    \* db.insert requests in flight: a set of [handle, name, n]
    cresult,    \* how the last createDocument call went
    ncalls,     \* createDocument calls made so far
    \* ---- the _replicator database of the server, and the replication jobs
    replicator, \* doc id -> [rev, alive]: rev 0 is a document that never existed
    pc,         \* getRunningReplicationJobs: "idle", "sched", "get", "done"
    sched,      \* the scheduler's response: sched.jobs
    inflight,   \* indices of sched.jobs whose document fetch is in flight
    gets,       \* the fetches that have resolved, in order: [key, outcome]
    docs,       \* the local docs array
    result,     \* how the returned promise settled
    stop        \* the stopReplication call: [pc, jobId, jobRev, req, result]

replVars == <<rpc, rargs, rcalls, rresult>>
dbsVars == <<dpc, dargs, dserver, dexclude, dresult>>
cacheVars == <<dbConn, useCalls, inserts, cresult, ncalls>>
jobsVars == <<replicator, pc, sched, inflight, gets, docs, result, stop>>
vars == <<replVars, dbsVars, cacheVars, jobsVars>>

\* A parameter the caller left out (undefined) is <<>>, one it gave is <<v>>.
Undefined == <<>>
Given(v) == <<v>>
\* A default parameter value (x = dflt in a parameter list).
Param(arg, dflt) == IF arg = Undefined THEN dflt ELSE arg[1]

\* How a promise settles.
Fulfilled(v) == [kind |-> "fulfilled", value |-> v]
Rejected(e) == [kind |-> "rejected", error |-> e]
Pending == [kind |-> "pending"]

(***************************************************************************)
(* Strings as UTF-16 code units.                                           *)
(***************************************************************************)
HttpScheme == <<104, 116, 116, 112, 58, 47, 47>>   \* 'http://'
Colon == <<58>>                                     \* ':'
At == <<64>>                                        \* '@'
Slash == <<47>>                                     \* '/'

IsHighSurrogate(c) == c >= 55296 /\ c <= 56319
IsLowSurrogate(c) == c >= 56320 /\ c <= 57343

\* The characters encodeURIComponent leaves alone: A-Z a-z 0-9 - _ . ! ~ * ' ( )
UriUnreserved(c) ==
    \/ c >= 65 /\ c <= 90
    \/ c >= 97 /\ c <= 122
    \/ c >= 48 /\ c <= 57
    \/ c \in {45, 95, 46, 33, 126, 42, 39, 40, 41}

\* The upper-case hexadecimal digit of n, as a code unit.
HexDigit(n) == IF n < 10 THEN 48 + n ELSE 55 + n
IsHexDigit(c) ==
    \/ c >= 48 /\ c <= 57
    \/ c >= 65 /\ c <= 70
    \/ c >= 97 /\ c <= 102
HexValue(c) ==
    IF c <= 57 THEN c - 48 ELSE IF c <= 70 THEN c - 55 ELSE c - 87

\* The UTF-8 octets of a code point.
Utf8Octets(cp) ==
    IF cp < 128 THEN <<cp>>
    ELSE IF cp < 2048 THEN <<192 + (cp \div 64), 128 + (cp % 64)>>
    ELSE IF cp < 65536 THEN
        <<224 + (cp \div 4096), 128 + ((cp \div 64) % 64), 128 + (cp % 64)>>
    ELSE <<240 + (cp \div 262144), 128 + ((cp \div 4096) % 64),
           128 + ((cp \div 64) % 64), 128 + (cp % 64)>>

RECURSIVE PercentEncoded(_)
PercentEncoded(octets) ==
    IF octets = <<>> THEN <<>>
    ELSE <<37, HexDigit(Head(octets) \div 16), HexDigit(Head(octets) % 16)>>
         \o PercentEncoded(Tail(octets))

UriOk(s) == [ok |-> TRUE, str |-> s]
UriError == [ok |-> FALSE, error |-> "URIError"]
UriPrepend(s, r) == IF r.ok THEN UriOk(s \o r.str) ELSE r

\* A variant of the encoder that keeps the URI reserved characters
\* ; / ? : @ & = + $ , # as they are, as encodeURI does.
RECURSIVE EncodeKeepingReserved(_, _)
EncodeKeepingReserved(s, k) ==
    IF k > Len(s) THEN UriOk(<<>>)
    ELSE LET c == s[k] IN
        IF UriUnreserved(c) \/ c \in {59, 47, 63, 58, 64, 38, 61, 43, 36, 44, 35}
        THEN UriPrepend(<<c>>, EncodeKeepingReserved(s, k + 1))
        ELSE IF IsLowSurrogate(c) THEN UriError
        ELSE IF IsHighSurrogate(c) THEN
            IF k + 1 > Len(s) \/ ~IsLowSurrogate(s[k + 1]) THEN UriError
            ELSE UriPrepend(
                PercentEncoded(Utf8Octets(
                    (c - 55296) * 1024 + (s[k + 1] - 56320) + 65536)),
                EncodeKeepingReserved(s, k + 2))
        ELSE UriPrepend(PercentEncoded(Utf8Octets(c)),
                        EncodeKeepingReserved(s, k + 1))

\* ECMAScript Encode(string, unreserved set of encodeURIComponent), from
\* code unit k on: an unreserved unit is copied, any other code point becomes
\* the %XX of its UTF-8 octets, and an unpaired surrogate throws URIError.
RECURSIVE EncodeFrom(_, _)
EncodeFrom(s, k) ==
    IF k > Len(s) THEN UriOk(<<>>)
    ELSE LET c == s[k] IN
        IF UriUnreserved(c) THEN UriPrepend(<<c>>, EncodeFrom(s, k + 1))
        ELSE IF IsLowSurrogate(c) THEN UriError
        ELSE IF IsHighSurrogate(c) THEN
            IF k + 1 > Len(s) \/ ~IsLowSurrogate(s[k + 1]) THEN UriError
            ELSE UriPrepend(
                PercentEncoded(Utf8Octets(
                    (c - 55296) * 1024 + (s[k + 1] - 56320) + 65536)),
                EncodeFrom(s, k + 2))
        ELSE UriPrepend(PercentEncoded(Utf8Octets(c)), EncodeFrom(s, k + 1))

encodeURIComponentKeepingReserved(s) == EncodeKeepingReserved(s, 1)

encodeURIComponent(s) == EncodeFrom(s, 1)

\* The octet written as %XX at position k of s, or -1 when there is none.
OctetAt(s, k) ==
    IF k + 2 <= Len(s) /\ s[k] = 37 /\ IsHexDigit(s[k + 1]) /\ IsHexDigit(s[k + 2])
    THEN HexValue(s[k + 1]) * 16 + HexValue(s[k + 2])
    ELSE -1

\* The number of octets of the UTF-8 sequence that lead octet b starts; 0 when
\* b cannot start one.
Utf8Length(b) ==
    IF b < 128 THEN 1
    ELSE IF b >= 192 /\ b <= 223 THEN 2
    ELSE IF b >= 224 /\ b <= 239 THEN 3
    ELSE IF b >= 240 /\ b <= 247 THEN 4
    ELSE 0

IsContinuation(b) == b >= 128 /\ b <= 191

\* The code point of the n-octet sequence written at position k, or -1 when the
\* octets are not a valid UTF-8 encoding.
CodePointAt(s, k, n) ==
    LET b1 == OctetAt(s, k)
        b2 == OctetAt(s, k + 3)
        b3 == OctetAt(s, k + 6)
        b4 == OctetAt(s, k + 9)
        cp == IF n = 2 THEN (b1 - 192) * 64 + (b2 - 128)
              ELSE IF n = 3 THEN (b1 - 224) * 4096 + (b2 - 128) * 64 + (b3 - 128)
              ELSE (b1 - 240) * 262144 + (b2 - 128) * 4096
                   + (b3 - 128) * 64 + (b4 - 128)
        least == IF n = 2 THEN 128 ELSE IF n = 3 THEN 2048 ELSE 65536
    IN  IF /\ IsContinuation(b2)
           /\ n >= 3 => IsContinuation(b3)
           /\ n >= 4 => IsContinuation(b4)
           /\ cp >= least
           /\ cp <= 1114111
           /\ ~(cp >= 55296 /\ cp <= 57343)
        THEN cp
        ELSE -1

\* The UTF-16 code units of a code point.
Utf16Units(cp) ==
    IF cp < 65536 THEN <<cp>>
    ELSE <<55296 + ((cp - 65536) \div 1024), 56320 + ((cp - 65536) % 1024)>>

\* ECMAScript Decode(string, no reserved set), from code unit k on.
RECURSIVE DecodeFrom(_, _)
DecodeFrom(s, k) ==
    IF k > Len(s) THEN UriOk(<<>>)
    ELSE IF s[k] # 37 THEN UriPrepend(<<s[k]>>, DecodeFrom(s, k + 1))
    ELSE LET b == OctetAt(s, k)
             n == Utf8Length(b)
         IN  IF b = -1 \/ n = 0 THEN UriError
             ELSE IF n = 1 THEN UriPrepend(<<b>>, DecodeFrom(s, k + 3))
             ELSE IF CodePointAt(s, k, n) = -1 THEN UriError
             ELSE UriPrepend(Utf16Units(CodePointAt(s, k, n)),
                             DecodeFrom(s, k + 3 * n))

decodeURIComponent(s) == DecodeFrom(s, 1)

(***************************************************************************)
(* The client instances (constructor, lines 19-27).                        *)
(***************************************************************************)
Hosts == {<<104>>, <<103>>}        \* 'h', 'g'
Ports == {<<49>>, <<50>>}          \* '1', '2'
Users == {<<117>>, <<118>>}        \* 'u', 'v'
Passwords == {<<112>>, <<113>>}    \* 'p', 'q'

\* new CouchDBClient(host, port, user, password)
CouchDBClient(host, port, user, password) ==
    [host |-> host, port |-> port, user |-> user, password |-> password,
     instanceUrl |-> HttpScheme \o user \o Colon \o password \o At
                     \o host \o Colon \o port]

Clients ==
    {CouchDBClient(h, p, u, w) : h \in Hosts, p \in Ports, u \in Users, w \in Passwords}

\* Database names: an unreserved letter, the reserved '/', '%', a two-octet and a
\* three-octet character, and the two halves of a surrogate pair.
MaxNameLen == 2
DbChars == {97, 47, 37, 233, 8364, 55357, 56832}
DbNames == UNION {[1..k -> DbChars] : k \in 0..MaxNameLen}

(***************************************************************************)
(* startReplication (lines 122-133).                                       *)
(***************************************************************************)
\* A variant of the guard that compares the whole connection URL, and so the
\* credentials too.
SameServerByUrl(a, b) == a.instanceUrl = b.instanceUrl

\* The guard of lines 124-125.
SameServer(a, b) == a.host = b.host /\ a.port = b.port

\* A variant of the request that is sent to the source instance.
EnableRequestOnSource(this, sourceInstance, sourceDb, db, continuous) ==
    [on |-> sourceInstance.instanceUrl, source |-> sourceDb, target |-> db,
     opts |-> [create_target |-> TRUE, continuous |-> continuous]]

\* this.nano.db.replication.enable(sourceDb, db, {create_target: true, continuous})
EnableRequest(this, sourceInstance, sourceDb, db, continuous) ==
    [on |-> this.instanceUrl, source |-> sourceDb, target |-> db,
     opts |-> [create_target |-> TRUE, continuous |-> continuous]]

\* What the server may answer to an enable request.
EnableResponses == {Fulfilled("ack"), Rejected("RemoteError")}

StartReplication ==
    /\ rpc = "call"
    /\ LET this == rargs.this
           sourceInstance == rargs.sourceInstance
           db == rargs.db
           continuous == Param(rargs.continuous, TRUE)
           encoded == encodeURIComponent(db)
       IN  IF SameServer(this, sourceInstance)
           THEN /\ rresult' = Rejected("Can't replicate from/to the same server")
                /\ rpc' = "done"
                /\ UNCHANGED rcalls
           ELSE IF ~encoded.ok
           THEN /\ rresult' = Rejected(encoded.error)
                /\ rpc' = "done"
                /\ UNCHANGED rcalls
           ELSE /\ rcalls' = Append(rcalls,
                        EnableRequest(this, sourceInstance,
                            sourceInstance.instanceUrl \o Slash \o encoded.str,
                            db, continuous))
                /\ rpc' = "enable"
                /\ UNCHANGED rresult
    /\ UNCHANGED <<rargs, dbsVars, cacheVars, jobsVars>>

\* The server answers the enable request; startReplication returns the
\* driver's promise, so the caller sees the answer as it is.
EnableRespond ==
    /\ rpc = "enable"
    /\ \E resp \in EnableResponses : rresult' = resp
    /\ rpc' = "done"
    /\ UNCHANGED <<rargs, rcalls, dbsVars, cacheVars, jobsVars>>

InitRepl ==
    /\ rpc = "call"
    /\ rargs \in [this : Clients, sourceInstance : Clients, db : DbNames,
                  continuous : {Undefined, Given(TRUE), Given(FALSE)}]
    /\ rcalls = <<>>
    /\ rresult = Pending

IdleRepl ==
    /\ rpc = "idle"
    /\ rargs = <<>>
    /\ rcalls = <<>>
    /\ rresult = Pending

(***************************************************************************)
(* getDatabases (lines 95-106).                                            *)
(***************************************************************************)
GLOBAL_CHANGES_DB == "_global_changes"
USERS_DB == "_users"
REPLICATOR_DB == "_replicator"
SCHEDULER_DB == "_scheduler"

\* The names a server may list and a caller may exclude.
DbUniverse == {GLOBAL_CHANGES_DB, USERS_DB, REPLICATOR_DB, SCHEDULER_DB, "foo"}
MaxDbs == 3
MaxExclude == 2

Range(f) == {f[i] : i \in DOMAIN f}
SeqsUpTo(S, n) == UNION {[1..k -> S] : k \in 0..n}
NoDuplicates(f) == \A i, j \in DOMAIN f : f[i] = f[j] => i = j

\* A server lists each of its databases once.
ServerLists == {l \in SeqsUpTo(DbUniverse, MaxDbs) : NoDuplicates(l)}

\* Array.prototype.includes
Includes(arr, x) == \E i \in 1..Len(arr) : arr[i] = x

\* db_list.filter(db => !exclude_dbs.includes(db))
RECURSIVE FilterNotIncluded(_, _)
FilterNotIncluded(db_list, exclude_dbs) ==
    IF db_list = <<>> THEN <<>>
    ELSE (IF Includes(exclude_dbs, Head(db_list)) THEN <<>> ELSE <<Head(db_list)>>)
         \o FilterNotIncluded(Tail(db_list), exclude_dbs)

\* A variant of the system list that counts the scheduler database in.
SystemDbsWithScheduler == <<GLOBAL_CHANGES_DB, USERS_DB, REPLICATOR_DB, SCHEDULER_DB>>

\* The array concatenated at line 100.
SystemDbs == <<GLOBAL_CHANGES_DB, USERS_DB, REPLICATOR_DB>>

\* Lines 95-103: the defaults, exclude_dbs, and the nano.db.list() request.
GetDatabases ==
    /\ dpc = "call"
    /\ LET exclude_list == Param(dargs.exclude_list, <<>>)
           exclude_system == Param(dargs.exclude_system, TRUE)
       IN  dexclude' = IF exclude_system THEN exclude_list \o SystemDbs
                       ELSE exclude_list
    /\ dpc' = "list"
    /\ UNCHANGED <<dargs, dserver, dresult, replVars, cacheVars, jobsVars>>

\* The server answers with its enumeration; lines 103-105.
ListRespond ==
    /\ dpc = "list"
    /\ LET db_list == dserver
       IN  dresult' = Fulfilled(FilterNotIncluded(db_list, dexclude))
    /\ dpc' = "done"
    /\ UNCHANGED <<dargs, dserver, dexclude, replVars, cacheVars, jobsVars>>

InitDbs ==
    /\ dpc = "call"
    /\ dargs \in [exclude_list :
                      {Undefined} \cup {Given(l) : l \in SeqsUpTo(DbUniverse, MaxExclude)},
                  exclude_system : {Undefined, Given(TRUE), Given(FALSE)}]
    /\ dserver \in ServerLists
    /\ dexclude = <<>>
    /\ dresult = Pending

IdleDbs ==
    /\ dpc = "idle"
    /\ dargs = <<>>
    /\ dserver = <<>>
    /\ dexclude = <<>>
    /\ dresult = Pending

(***************************************************************************)
(* createDocument (lines 79-88) and this.dbConn (line 26).                 *)
(*                                                                         *)
(* this.dbConn is an ordinary object ({}): its prototype is                *)
(* Object.prototype, so dbConn.hasOwnProperty is whatever a lookup of the  *)
(* key 'hasOwnProperty' finds, and an assignment to the key '__proto__'    *)
(* runs the setter of Object.prototype, which replaces the prototype and   *)
(* creates no own property.                                                *)
(***************************************************************************)
CacheNames == {"db1", "db2", "__proto__", "hasOwnProperty"}
MaxCreateCalls == 3

\* Object.prototype, as the value of a prototype slot. The object that the
\* n-th nano.use call returned is n.
ObjectPrototype == 0

EmptyObject == [own |-> <<>>, proto |-> ObjectPrototype]

\* obj.hasOwnProperty resolves to the built-in unless the object has an own
\* property of that name (a handle returned by nano.use has none, and
\* inherits the built-in from Object.prototype).
HasOwnPropertyIsCallable(obj) == "hasOwnProperty" \notin DOMAIN obj.own

\* Object.prototype.hasOwnProperty.call(obj, key)
HasOwnProperty(obj, key) == key \in DOMAIN obj.own

\* obj[key] = value
SetProperty(obj, key, value) ==
    IF key = "__proto__" THEN [obj EXCEPT !.proto = value]
    ELSE [obj EXCEPT !.own = (key :> value) @@ @]

\* obj[key], for a key the object has as an own property
GetOwnProperty(obj, key) == obj.own[key]

CreateDocument(dbName, doc, id) ==
    /\ ncalls < MaxCreateCalls
    /\ ncalls' = ncalls + 1
    /\ IF ~HasOwnPropertyIsCallable(dbConn)
       THEN \* this.dbConn.hasOwnProperty is not a function
            /\ cresult' = [name |-> dbName, outcome |-> "TypeError",
                           handle |-> ObjectPrototype, opened |-> FALSE]
            /\ UNCHANGED <<dbConn, useCalls, inserts>>
       ELSE IF HasOwnProperty(dbConn, dbName)
       THEN LET db == GetOwnProperty(dbConn, dbName)
            IN  /\ inserts' = inserts \cup
                       {[handle |-> db, doc |-> doc, id |-> id, n |-> ncalls + 1]}
                /\ cresult' = [name |-> dbName, outcome |-> "insert",
                               handle |-> db, opened |-> FALSE]
                /\ UNCHANGED <<dbConn, useCalls>>
       ELSE LET db == Len(useCalls) + 1
            IN  /\ useCalls' = Append(useCalls, dbName)
                /\ dbConn' = SetProperty(dbConn, dbName, db)
                /\ inserts' = inserts \cup
                       {[handle |-> db, doc |-> doc, id |-> id, n |-> ncalls + 1]}
                /\ cresult' = [name |-> dbName, outcome |-> "insert",
                               handle |-> db, opened |-> TRUE]
    /\ UNCHANGED <<replVars, dbsVars, jobsVars>>

\* The server answers one of the inserts in flight.
InsertRespond ==
    /\ \E r \in inserts : inserts' = inserts \ {r}
    /\ UNCHANGED <<dbConn, useCalls, cresult, ncalls, replVars, dbsVars, jobsVars>>

InitCache ==
    /\ dbConn = EmptyObject
    /\ useCalls = <<>>
    /\ inserts = {}
    /\ cresult = [name |-> "", outcome |-> "none", handle |-> ObjectPrototype,
                  opened |-> FALSE]
    /\ ncalls = 0

(***************************************************************************)
(* The server's _replicator database and scheduler, as the client sees     *)
(* them through the driver.                                                *)
(***************************************************************************)
DocIds == {"d1", "d2"}
\* The doc_id of a scheduler job that no replicator document describes.
NullId == "<null>"
MaxRev == 2
MaxJobs == 2

\* A scheduler response: {jobs: [{doc_id: ...}, ...]}.
JobLists ==
    {[i \in DOMAIN f |-> [doc_id |-> f[i]]] :
        f \in SeqsUpTo(DocIds \cup {NullId}, MaxJobs)}

DocStates == {d \in [rev : 0..MaxRev, alive : BOOLEAN] : d.rev = 0 => ~d.alive}

\* GET /_replicator/<key>: the document, or why there is none.
ServerGet(key) ==
    IF key = NullId THEN [outcome |-> "invalid_id"]
    ELSE IF replicator[key].alive
    THEN [outcome |-> "ok", doc |-> [_id |-> key, _rev |-> replicator[key].rev]]
    ELSE [outcome |-> "not_found"]

\* Some writer (the server itself, another client) creates or updates a
\* replicator document: it gets the next revision.
DocPut(id) ==
    /\ replicator[id].rev < MaxRev
    /\ replicator' = [replicator EXCEPT ![id] = [rev |-> @.rev + 1, alive |-> TRUE]]
    /\ UNCHANGED <<pc, sched, inflight, gets, docs, result, stop,
                   replVars, dbsVars, cacheVars>>

(***************************************************************************)
(* getRunningReplicationJobs (lines 150-161).                              *)
(***************************************************************************)
\* Lines 151-154: docs = [], and the request for the scheduler's jobs.
GetRunningReplicationJobs ==
    /\ pc \in {"idle", "done"}
    /\ pc' = "sched"
    /\ docs' = <<>>
    /\ gets' = <<>>
    /\ sched' = [jobs |-> <<>>]
    /\ inflight' = {}
    /\ result' = Pending
    /\ UNCHANGED <<replicator, stop, replVars, dbsVars, cacheVars>>

\* A variant of the loop that starts every fetch before awaiting any.
FetchesAfterSchedAll(n) == 1..n

\* The fetches started when the scheduler's n jobs arrive: the loop of line 155
\* awaits its first replicator.get before anything else.
FetchesAfterSched(n) == IF n >= 1 THEN {1} ELSE {}

\* A variant of the loop that fetches the first job's document each time.
FetchKeyOfFirst(jobs, i) == jobs[1].doc_id

\* The key of the i-th fetch: sJob.doc_id (line 156).
FetchKey(jobs, i) == jobs[i].doc_id

\* A variant of the loop that goes on after a failed fetch.
ContinuesAfterAny(outcome) == TRUE

\* Whether the loop goes on after a fetch: a rejected replicator.get throws
\* at the await of line 156, and nothing catches it.
ContinuesAfter(outcome) == outcome = "ok"

\* Promise.all of an array of values that are not promises: the same values.
PromiseAll(values) == [i \in 1..Len(values) |-> values[i]]

\* The scheduler answers; line 155 starts the loop, or line 160 returns when
\* there is no job.
SchedRespond ==
    /\ pc = "sched"
    /\ \E jobs \in JobLists :
        /\ sched' = [jobs |-> jobs]
        /\ inflight' = FetchesAfterSched(Len(jobs))
        /\ IF jobs = <<>>
           THEN pc' = "done" /\ result' = Fulfilled(PromiseAll(docs))
           ELSE pc' = "get" /\ UNCHANGED result
    /\ UNCHANGED <<replicator, gets, docs, stop, replVars, dbsVars, cacheVars>>

\* The server answers the fetch of the i-th job's document; lines 156-160.
GetRespond(i) ==
    /\ pc = "get"
    /\ i \in inflight
    /\ LET key == FetchKey(sched.jobs, i)
           answer == ServerGet(key)
           pushed == IF answer.outcome = "ok" THEN Append(docs, answer.doc) ELSE docs
       IN  /\ gets' = Append(gets, [index |-> i, key |-> key,
                                    outcome |-> answer.outcome])
           /\ docs' = pushed
           /\ IF ~ContinuesAfter(answer.outcome)
              THEN /\ pc' = "done"
                   /\ result' = Rejected(answer.outcome)
                   /\ inflight' = {}
              ELSE IF i < Len(sched.jobs)
              THEN /\ inflight' = (inflight \ {i}) \cup {i + 1}
                   /\ UNCHANGED <<pc, result>>
              ELSE /\ pc' = "done"
                   /\ result' = Fulfilled(PromiseAll(pushed))
                   /\ inflight' = {}
    /\ UNCHANGED <<replicator, sched, stop, replVars, dbsVars, cacheVars>>

(***************************************************************************)
(* stopReplication (lines 140-142).                                        *)
(***************************************************************************)
\* A variant that looks the document's revision up instead of sending the
\* caller's.
DisableRequestWithCurrentRev(jobId, jobRev) ==
    [id |-> jobId, rev |-> replicator[jobId].rev]

\* this.nano.db.replication.disable(jobId, jobRev)
DisableRequest(jobId, jobRev) == [id |-> jobId, rev |-> jobRev]

StopIdle == [pc |-> "idle"]

StopReplication(jobId, jobRev) ==
    /\ stop.pc \in {"idle", "done"}
    /\ stop' = [pc |-> "disable", jobId |-> jobId, jobRev |-> jobRev,
                req |-> DisableRequest(jobId, jobRev), result |-> Pending]
    /\ UNCHANGED <<replicator, pc, sched, inflight, gets, docs, result,
                   replVars, dbsVars, cacheVars>>

\* DELETE /_replicator/<id>?rev=<rev>: the server deletes the document when the
\* revision is its current one, and answers a conflict when it is not.
ServerDelete(req) ==
    LET d == replicator[req.id]
    IN  IF ~d.alive THEN [answer |-> Rejected("not_found"), store |-> replicator]
        ELSE IF req.rev = d.rev
        THEN [answer |-> Fulfilled("ok"),
              store |-> [replicator EXCEPT ![req.id].alive = FALSE]]
        ELSE [answer |-> Rejected("conflict"), store |-> replicator]

\* The server answers the disable request; stopReplication returns the
\* driver's promise, so the caller sees the answer as it is.
DisableRespond ==
    /\ stop.pc = "disable"
    /\ LET served == ServerDelete(stop.req)
       IN  /\ replicator' = served.store
           /\ stop' = [stop EXCEPT !.pc = "done", !.result = served.answer]
    /\ UNCHANGED <<pc, sched, inflight, gets, docs, result,
                   replVars, dbsVars, cacheVars>>

InitJobs ==
    /\ replicator \in [DocIds -> DocStates]
    /\ pc = "idle"
    /\ sched = [jobs |-> <<>>]
    /\ inflight = {}
    /\ gets = <<>>
    /\ docs = <<>>
    /\ result = Pending
    /\ stop = StopIdle

IdleJobs ==
    /\ replicator = [id \in DocIds |-> [rev |-> 0, alive |-> FALSE]]
    /\ pc = "idle"
    /\ sched = [jobs |-> <<>>]
    /\ inflight = {}
    /\ gets = <<>>
    /\ docs = <<>>
    /\ result = Pending
    /\ stop = StopIdle

(***************************************************************************)
(* The specifications: one per operation group. The groups share no state, *)
(* so each is checked with the others at rest.                             *)
(***************************************************************************)
\* The replication jobs: getRunningReplicationJobs and stopReplication against
\* the server's _replicator database.
Init == IdleRepl /\ IdleDbs /\ InitCache /\ InitJobs

Next ==
    \/ GetRunningReplicationJobs
    \/ SchedRespond
    \/ \E i \in 1..MaxJobs : GetRespond(i)
    \/ \E id \in DocIds, rev \in 1..MaxRev : StopReplication(id, rev)
    \/ DisableRespond
    \/ \E id \in DocIds : DocPut(id)

Spec == Init /\ [][Next]_vars

\* startReplication, for every pair of clients and every database name.
InitReplication == InitRepl /\ IdleDbs /\ InitCache /\ IdleJobs

NextReplication == StartReplication \/ EnableRespond

SpecReplication == InitReplication /\ [][NextReplication]_vars

\* getDatabases, for every server enumeration and every argument.
InitDatabases == IdleRepl /\ InitDbs /\ InitCache /\ IdleJobs

NextDatabases == GetDatabases \/ ListRespond

SpecDatabases == InitDatabases /\ [][NextDatabases]_vars

\* createDocument calls on one client, interleaved with the server's answers.
InitCreate == IdleRepl /\ IdleDbs /\ InitCache /\ IdleJobs

NextCreate ==
    \/ \E dbName \in CacheNames : CreateDocument(dbName, "doc", "id")
    \/ InsertRespond

SpecCache == InitCreate /\ [][NextCreate]_vars

(***************************************************************************)
(* Properties of startReplication, checked under SpecReplication.          *)
(***************************************************************************)
\* A string with no unpaired surrogate.
WellFormed(s) ==
    \A i \in 1..Len(s) :
        /\ IsHighSurrogate(s[i]) => i < Len(s) /\ IsLowSurrogate(s[i + 1])
        /\ IsLowSurrogate(s[i]) => i > 1 /\ IsHighSurrogate(s[i - 1])

\* seg holds only unreserved characters and %XX escapes, and decodes to name.
IsPercentEncodingOf(seg, name) ==
    /\ \A j \in 1..Len(seg) :
        \/ UriUnreserved(seg[j])
        \/ /\ seg[j] = 37
           /\ j + 2 <= Len(seg)
           /\ IsHexDigit(seg[j + 1])
           /\ IsHexDigit(seg[j + 2])
    /\ decodeURIComponent(seg) = UriOk(name)

\* The part of a URL after its last '/': its last path segment.
AfterLastSlash(url) ==
    LET slashes == {i \in 1..Len(url) : url[i] = 47}
        last == CHOOSE i \in slashes : \A j \in slashes : j <= i
    IN  IF slashes = {} THEN url ELSE SubSeq(url, last + 1, Len(url))

SameHostAndPort ==
    /\ rargs.this.host = rargs.sourceInstance.host
    /\ rargs.this.port = rargs.sourceInstance.port

\* C1: when the two clients have the same host and the same port, whatever
\* their credentials, the database name and the continuous flag,
\* startReplication fails with the self-replication error and no enable
\* request is ever issued.
C1_SelfReplicationRejected ==
    (rpc # "call" /\ SameHostAndPort) =>
        /\ rpc = "done"
        /\ rresult = Rejected("Can't replicate from/to the same server")
        /\ rcalls = <<>>

\* C1 witness: a self-replication between two clients of the same server
\* with different credentials has been rejected.
C1_Witness ==
    /\ rpc = "done"
    /\ SameHostAndPort
    /\ rargs.this.user # rargs.sourceInstance.user
    /\ rargs.this.password # rargs.sourceInstance.password
    /\ rargs.continuous = Given(FALSE)
    /\ rresult.kind = "rejected"
    /\ rcalls = <<>>

\* The one enable request C7 describes: on the target, the source URL being
\* the source's URL, a slash and the percent-encoded name.
IsTheEnableRequest(call) ==
    LET prefix == rargs.sourceInstance.instanceUrl \o <<47>>
    IN  /\ call.on = rargs.this.instanceUrl
        /\ Len(call.source) >= Len(prefix)
        /\ SubSeq(call.source, 1, Len(prefix)) = prefix
        /\ IsPercentEncodingOf(
               SubSeq(call.source, Len(prefix) + 1, Len(call.source)), rargs.db)
        /\ call.target = rargs.db
        /\ call.opts.create_target = TRUE
        /\ call.opts.continuous =
               (IF rargs.continuous = <<>> THEN TRUE ELSE rargs.continuous[1])

\* C7 as stated: whenever the two clients differ in host or port,
\* startReplication issues exactly one enable request, of the described
\* shape, and returns the server's answer.
C7_OneEnableCallWheneverServersDiffer ==
    (rpc = "done" /\ ~SameHostAndPort) =>
        /\ Len(rcalls) = 1
        /\ IsTheEnableRequest(rcalls[1])
        /\ rresult \in EnableResponses

\* C7 amended: the same, for a database name with no unpaired surrogate; the
\* request is issued once and never again, and the promise settles as the
\* server answered. For a name with an unpaired surrogate the call fails
\* with URIError and issues no request.
C7_OneEnableCallForWellFormedName ==
    (rpc # "call" /\ ~SameHostAndPort) =>
        IF WellFormed(rargs.db)
        THEN /\ Len(rcalls) = 1
             /\ IsTheEnableRequest(rcalls[1])
             /\ rpc = "done" => rresult \in EnableResponses
        ELSE /\ rpc = "done"
             /\ rcalls = <<>>
             /\ rresult = Rejected("URIError")

\* C7 witness: a replication between two ports of one host, of a database
\* whose name holds a slash, with continuous left out, was acknowledged.
C7_Witness ==
    /\ rpc = "done"
    /\ rargs.this.host = rargs.sourceInstance.host
    /\ rargs.this.port # rargs.sourceInstance.port
    /\ rargs.db = <<97, 47>>
    /\ rargs.continuous = Undefined
    /\ Len(rcalls) = 1
    /\ rcalls[1].opts.continuous = TRUE
    /\ rresult = Fulfilled("ack")

\* C8: the last path segment of the source URL of every enable request is a
\* percent-encoding of the database name: it holds no unescaped reserved
\* character and decoding it gives the name back.
C8_SourceSegmentDecodesToName ==
    \A i \in 1..Len(rcalls) :
        IsPercentEncodingOf(AfterLastSlash(rcalls[i].source), rargs.db)

\* C8 witness: a request was issued for a name made of a slash and a
\* non-ASCII character.
C8_Witness ==
    /\ Len(rcalls) = 1
    /\ rargs.db = <<47, 233>>
    /\ AfterLastSlash(rcalls[1].source) = <<37, 50, 70, 37, 67, 51, 37, 65, 57>>

(***************************************************************************)
(* Properties of getDatabases, checked under SpecDatabases.                *)
(***************************************************************************)
\* C4: getDatabases returns the server's names, in the server's order, that
\* are not in exclude_list and, unless exclude_system is false, are not
\* _global_changes, _users or _replicator; _scheduler is kept.
C4_DatabasesFiltered ==
    dpc = "done" =>
        LET E == IF dargs.exclude_list = <<>> THEN {}
                 ELSE {dargs.exclude_list[1][i] : i \in 1..Len(dargs.exclude_list[1])}
            system == IF dargs.exclude_system = <<FALSE>> THEN {}
                      ELSE {"_global_changes", "_users", "_replicator"}
            Kept(name) == name \notin E /\ name \notin system
        IN  /\ dresult = Fulfilled(SelectSeq(dserver, Kept))
            /\ \A i \in 1..Len(dserver) :
                   (dserver[i] = "_scheduler" /\ "_scheduler" \notin E) =>
                       \E j \in 1..Len(dresult.value) : dresult.value[j] = "_scheduler"

\* C4 witness: with the default exclude_system and exclude_list = ["foo"], a
\* server listing _users, _scheduler and foo gave _scheduler alone.
C4_Witness ==
    /\ dpc = "done"
    /\ dargs.exclude_system = Undefined
    /\ dargs.exclude_list = Given(<<"foo">>)
    /\ dserver = <<"_users", "_scheduler", "foo">>
    /\ dresult = Fulfilled(<<"_scheduler">>)

(***************************************************************************)
(* Properties of createDocument, checked under SpecCache.                  *)
(***************************************************************************)
\* C6: createDocument calls nano.use at most once for each database name,
\* and a call that does not open a handle inserts through the handle the
\* first call for that name opened.
C6_OpenedAtMostOncePerName ==
    /\ \A name \in CacheNames :
           Cardinality({i \in 1..Len(useCalls) : useCalls[i] = name}) <= 1
    /\ \A name \in CacheNames :
           (cresult.name = name /\ \E i \in 1..Len(useCalls) : useCalls[i] = name) =>
               /\ cresult.outcome = "insert"
               /\ useCalls[cresult.handle] = name

(***************************************************************************)
(* Properties of getRunningReplicationJobs and stopReplication, checked    *)
(* under Spec.                                                             *)
(***************************************************************************)
DocIdsOf(jobs) == {jobs[i].doc_id : i \in 1..Len(jobs)}
DistinctDocIds(jobs) ==
    \A i, j \in 1..Len(jobs) : jobs[i].doc_id = jobs[j].doc_id => i = j
AllFetchesOk == \A i \in 1..Len(gets) : gets[i].outcome = "ok"

\* C2: when the scheduler's jobs have pairwise distinct doc ids and every
\* fetch found its document, the call returns as many documents as there
\* are jobs, no two with the same id, their ids being exactly the jobs' doc
\* ids.
C2_OneDocumentPerJob ==
    (pc = "done" /\ DistinctDocIds(sched.jobs) /\ AllFetchesOk) =>
        /\ result.kind = "fulfilled"
        /\ Len(result.value) = Len(sched.jobs)
        /\ \A i, j \in 1..Len(result.value) :
               result.value[i]._id = result.value[j]._id => i = j
        /\ {result.value[i]._id : i \in 1..Len(result.value)} = DocIdsOf(sched.jobs)

\* C2 witness: two jobs with different doc ids, both documents found, and two
\* documents returned.
C2_Witness ==
    /\ pc = "done"
    /\ Len(sched.jobs) = 2
    /\ DistinctDocIds(sched.jobs)
    /\ result.kind = "fulfilled"
    /\ Len(result.value) = 2

\* C3: when the fetch of any job's document fails, the call fails with that
\* fetch's error; a call that returns documents has fetched every job's.
C3_NoPartialList ==
    pc = "done" =>
        /\ \A i \in 1..Len(gets) :
               gets[i].outcome # "ok" => result = Rejected(gets[i].outcome)
        /\ result.kind = "fulfilled" =>
               /\ Len(result.value) = Len(sched.jobs)
               /\ Len(gets) = Len(sched.jobs)
               /\ AllFetchesOk

\* C3 witness: the second of two jobs has no document; the first was fetched,
\* and the call failed with not_found.
C3_Witness ==
    /\ pc = "done"
    /\ Len(sched.jobs) = 2
    /\ Len(gets) = 2
    /\ gets[1].outcome = "ok"
    /\ gets[2].outcome = "not_found"
    /\ docs # <<>>
    /\ result = Rejected("not_found")

\* C5: a disable request whose revision is not the live document's current
\* revision is answered with a conflict, which the caller receives as it is,
\* and leaves the _replicator database as it was; the database changes only
\* when the caller's revision is the current one, and then the document is
\* deleted.
C5_StaleRevisionConflicts ==
    [][(stop.pc = "disable" /\ stop'.pc = "done") =>
        LET d == replicator[stop.jobId]
        IN  /\ (d.alive /\ stop.jobRev # d.rev) =>
                   /\ stop'.result = Rejected("conflict")
                   /\ replicator' = replicator
            /\ replicator' # replicator =>
                   /\ d.alive
                   /\ stop.jobRev = d.rev
                   /\ stop'.result = Fulfilled("ok")
                   /\ replicator' = [replicator EXCEPT ![stop.jobId].alive = FALSE]
      ]_vars

\* C5 witness: a stop with a stale revision got a conflict and the document is
\* still there, at a newer revision.
C5_Witness ==
    /\ stop.pc = "done"
    /\ stop.result = Rejected("conflict")
    /\ replicator[stop.jobId].alive
    /\ replicator[stop.jobId].rev > stop.jobRev

\* C10 as stated: a fetch is issued for every scheduler entry whatever the
\* other fetches give, and the call does not settle before all of them have
\* resolved.
C10_EveryEntryFetchedBeforeReturn ==
    pc = "done" => Len(gets) = Len(sched.jobs)

\* C10 amended: the fetches are sequential. At most one is in flight; the
\* fetch of an entry is issued only after the fetches of all earlier entries
\* have succeeded; the call fails at the first failed fetch without fetching
\* the later entries, and returns documents only after every entry's fetch
\* has succeeded.
C10_SequentialFetches ==
    /\ Cardinality(inflight) <= 1
    /\ \A i \in 1..Len(gets) : gets[i].index = i
    /\ pc = "get" => inflight = {Len(gets) + 1} /\ AllFetchesOk
    /\ pc = "done" =>
           /\ inflight = {}
           /\ result.kind = "fulfilled" =>
                  Len(gets) = Len(sched.jobs) /\ AllFetchesOk
           /\ result.kind = "rejected" =>
                  /\ Len(gets) >= 1
                  /\ Len(gets) <= Len(sched.jobs)
                  /\ gets[Len(gets)].outcome # "ok"
                  /\ \A i \in 1..(Len(gets) - 1) : gets[i].outcome = "ok"

\* C10 witness: the first of two fetches failed, and the call failed with the
\* second entry never fetched.
C10_Witness ==
    /\ pc = "done"
    /\ Len(sched.jobs) = 2
    /\ Len(gets) = 1
    /\ result.kind = "rejected"

=============================================================================
